---- MODULE Spec2Model ----
(***************************************************************************)
(* A model of the brainfuck interpreter of src/src/main.rs: the Tape, the  *)
(* Program with its on-the-fly bracket matching, and the Runner with its   *)
(* step / run / run_for drivers.  Every method is an operator over the     *)
(* records that stand for the Rust structs; the actions are the calls a    *)
(* host can make on a Runner.                                              *)
(***************************************************************************)
EXTENDS Integers, Sequences, FiniteSets, TLC

(* ------------------------------ bounds -------------------------------- *)
\* longest source text enumerated exhaustively
MaxLen == 2
\* largest configured maximum tape size
MaxTape == 2
\* cap on the total step counter (u64 in the code)
MaxSteps == 7
\* largest quantum handed to run_for
MaxQuantum == 2
\* the I/O capabilities may fail on their 1st .. MaxFuse-th invocation of a call
MaxFuse == 1

(* --------------------------- Instruction ------------------------------ *)
Left == "Left"
Right == "Right"
Increment == "Increment"
Decrement == "Decrement"
Output == "Output"
Input == "Input"
BeginLoop == "BeginLoop"
EndLoop == "EndLoop"
Instruction == {Left, Right, Increment, Decrement, Output, Input, BeginLoop, EndLoop}

\* Option<T> is the set of at most one value
None == {}
Some(x) == {x}
Unwrap(o) == CHOOSE x \in o : TRUE

\* Instruction::from_char
from_char(a) ==
    CASE a = "<" -> Some(Left)
      [] a = ">" -> Some(Right)
      [] a = "+" -> Some(Increment)
      [] a = "-" -> Some(Decrement)
      [] a = "." -> Some(Output)
      [] a = "," -> Some(Input)
      [] a = "[" -> Some(BeginLoop)
      [] a = "]" -> Some(EndLoop)
      [] OTHER -> None

\* the characters source texts are drawn from: the eight symbols and a comment
Chars == {"<", ">", "+", "-", ".", ",", "[", "]", "#"}

(* ----------------------------- Program -------------------------------- *)
RECURSIVE filter_map(_)
filter_map(code) ==
    IF code = << >> THEN << >>
    ELSE LET o == from_char(Head(code)) IN
         (IF o = None THEN << >> ELSE <<Unwrap(o)>>) \o filter_map(Tail(code))

\* Program::parse_source
parse_source(code) == [source |-> filter_map(code), pc |-> 0]

\* the instruction at 0-based index i of a Vec
At(source, i) == source[i + 1]

NoMatch == -1

\* a scan that ignores nesting and stops at the first `]`
RECURSIVE scan_forward_flat(_, _, _, _)
scan_forward_flat(source, pc, i, paren_counter) ==
    IF pc + i >= Len(source) THEN NoMatch
    ELSE IF At(source, pc + i) = EndLoop THEN i
    ELSE scan_forward_flat(source, pc, i + 1, paren_counter)

\* the forward scan of execute_command, lines 73-84: i is the offset from pc,
\* paren_counter the depth before source[pc + i] is examined; the result is
\* the offset at which the depth returns to 0.  The counter is 1 or more
\* whenever it is decremented, so the usize subtraction never wraps.
RECURSIVE scan_forward(_, _, _, _)
scan_forward(source, pc, i, paren_counter) ==
    IF pc + i >= Len(source) THEN NoMatch
    ELSE LET inst == At(source, pc + i)
             c == CASE inst = BeginLoop -> paren_counter + 1
                    [] inst = EndLoop -> paren_counter - 1
                    [] OTHER -> paren_counter
         IN IF c = 0 THEN i ELSE scan_forward(source, pc, i + 1, c)

\* a scan that ignores nesting and stops at the first `[`
RECURSIVE scan_backward_flat(_, _, _)
scan_backward_flat(source, i, paren_counter) ==
    IF i < 0 THEN NoMatch
    ELSE IF At(source, i) = BeginLoop THEN i
    ELSE scan_backward_flat(source, i - 1, paren_counter)

\* the backward scan of execute_command, lines 95-106: i is the absolute index
RECURSIVE scan_backward(_, _, _)
scan_backward(source, i, paren_counter) ==
    IF i < 0 THEN NoMatch
    ELSE LET inst == At(source, i)
             c == CASE inst = EndLoop -> paren_counter + 1
                    [] inst = BeginLoop -> paren_counter - 1
                    [] OTHER -> paren_counter
         IN IF c = 0 THEN i ELSE scan_backward(source, i - 1, c)

NoClosing == "found no matching closing parenthesis"
NoOpening == "found no matching opening parenthesis"
SizeExceeded == "MaxSizeExceeded"
IoError == "io::Error"
NoValue == "-"

\* the instruction execute_command reports when a `]` is left forward
EndLoopExitReport == BeginLoop

\* an end test that stops one instruction early
at_end_early(program) == program.pc + 1 >= Len(program.source)

\* line 67: the counter is at or past the end of the source
at_end(program) == program.pc >= Len(program.source)

\* Program::execute_command: the program after the call and its result
execute_command(program, cell_value) ==
    LET pc == program.pc
        source == program.source
        Ok(newpc, inst) == [program |-> [program EXCEPT !.pc = newpc],
                            res |-> "Step", instruction |-> inst, error |-> NoValue]
        Err(msg) == [program |-> program, res |-> "Err",
                     instruction |-> NoValue, error |-> msg]
    IN IF at_end(program)
       THEN [program |-> program, res |-> "Terminate",
             instruction |-> NoValue, error |-> NoValue]
       ELSE CASE At(source, pc) = BeginLoop ->
                   IF cell_value = 0
                   THEN LET i == scan_forward(source, pc, 0, 0) IN
                        IF i = NoMatch THEN Err(NoClosing) ELSE Ok(pc + i, BeginLoop)
                   ELSE Ok(pc + 1, BeginLoop)
              [] At(source, pc) = EndLoop ->
                   IF cell_value # 0
                   THEN LET i == scan_backward(source, pc, 0) IN
                        IF i = NoMatch THEN Err(NoOpening) ELSE Ok(i, EndLoop)
                   ELSE Ok(pc + 1, EndLoopExitReport)
              [] OTHER -> Ok(pc + 1, At(source, pc))

(* ------------------------------- Tape --------------------------------- *)
\* the number of values of a u8 cell
ByteMod == 256

Abs(x) == IF x < 0 THEN -x ELSE x

\* Tape::new
TapeNew(max_size) == [left |-> << >>, right |-> <<0>>, pointer |-> 0, max_size |-> max_size]

\* Tape::val / Tape::read
read(tape) ==
    IF tape.pointer < 0 THEN tape.left[Abs(tape.pointer + 1) + 1]
    ELSE tape.right[tape.pointer + 1]

\* Tape::val_mut / Tape::write
write(tape, c) ==
    IF tape.pointer < 0 THEN [tape EXCEPT !.left[Abs(tape.pointer + 1) + 1] = c]
    ELSE [tape EXCEPT !.right[tape.pointer + 1] = c]

\* an increment that stops at the largest byte
increment_saturating(tape) ==
    write(tape, IF read(tape) + 1 >= ByteMod THEN read(tape) ELSE read(tape) + 1)

\* Tape::increment
increment(tape) == write(tape, (read(tape) + 1) % ByteMod)

\* Tape::decrement
decrement(tape) == write(tape, (read(tape) - 1) % ByteMod)

\* a growth test that is off by one
exceeds_late(tape) == Len(tape.left) + Len(tape.right) > tape.max_size

\* the growth test of move_left and move_right, lines 172 and 183
exceeds(tape) == Len(tape.left) + Len(tape.right) + 1 > tape.max_size

\* a move_left whose growth test is off by one, so that it grows too late
move_left_short(tape) ==
    IF tape.pointer <= 0 /\ Len(tape.left) < Abs(tape.pointer)
    THEN IF exceeds(tape)
         THEN [tape |-> tape, ok |-> FALSE]
         ELSE [tape |-> [tape EXCEPT !.left = Append(@, 0), !.pointer = @ - 1], ok |-> TRUE]
    ELSE [tape |-> [tape EXCEPT !.pointer = @ - 1], ok |-> TRUE]

\* a move_left that refuses every move on a full tape
move_left_strict(tape) ==
    IF exceeds(tape)
    THEN [tape |-> tape, ok |-> FALSE]
    ELSE IF tape.pointer <= 0 /\ Len(tape.left) <= Abs(tape.pointer)
    THEN [tape |-> [tape EXCEPT !.left = Append(@, 0), !.pointer = @ - 1], ok |-> TRUE]
    ELSE [tape |-> [tape EXCEPT !.pointer = @ - 1], ok |-> TRUE]

\* a move_left that moves the pointer before it tests the size
move_left_eager(tape) ==
    IF tape.pointer <= 0 /\ Len(tape.left) <= Abs(tape.pointer)
    THEN IF exceeds(tape)
         THEN [tape |-> [tape EXCEPT !.pointer = @ - 1], ok |-> FALSE]
         ELSE [tape |-> [tape EXCEPT !.left = Append(@, 0), !.pointer = @ - 1], ok |-> TRUE]
    ELSE [tape |-> [tape EXCEPT !.pointer = @ - 1], ok |-> TRUE]

\* Tape::move_left
move_left(tape) ==
    IF tape.pointer <= 0 /\ Len(tape.left) <= Abs(tape.pointer)
    THEN IF exceeds(tape)
         THEN [tape |-> tape, ok |-> FALSE]
         ELSE [tape |-> [tape EXCEPT !.left = Append(@, 0), !.pointer = @ - 1], ok |-> TRUE]
    ELSE [tape |-> [tape EXCEPT !.pointer = @ - 1], ok |-> TRUE]

\* a move_right that moves the pointer before it tests the size
move_right_eager(tape) ==
    IF tape.pointer >= 0 /\ Len(tape.right) - 1 <= tape.pointer
    THEN IF exceeds(tape)
         THEN [tape |-> [tape EXCEPT !.pointer = @ + 1], ok |-> FALSE]
         ELSE [tape |-> [tape EXCEPT !.right = Append(@, 0), !.pointer = @ + 1], ok |-> TRUE]
    ELSE [tape |-> [tape EXCEPT !.pointer = @ + 1], ok |-> TRUE]

\* Tape::move_right
move_right(tape) ==
    IF tape.pointer >= 0 /\ Len(tape.right) - 1 <= tape.pointer
    THEN IF exceeds(tape)
         THEN [tape |-> tape, ok |-> FALSE]
         ELSE [tape |-> [tape EXCEPT !.right = Append(@, 0), !.pointer = @ + 1], ok |-> TRUE]
    ELSE [tape |-> [tape EXCEPT !.pointer = @ + 1], ok |-> TRUE]

(* ------------------------- the I/O capabilities ----------------------- *)
\* The environment of a call: the input stream and the number of its bytes
\* already read, the bytes written so far, and fuse, the number of capability
\* invocations that still succeed before one fails with an io::Error (Never:
\* none fails).
Never == -1
Burn(io) == [io EXCEPT !.fuse = IF @ = Never THEN Never ELSE @ - 1]

\* an input closure that delivers 255 at end of stream
input_eof_ff(io) ==
    IF io.fuse = 0 THEN [io |-> [io EXCEPT !.fuse = Never], ok |-> FALSE, byte |-> 0]
    ELSE IF io.stdin_pos >= Len(io.stdin)
    THEN [io |-> Burn(io), ok |-> TRUE, byte |-> ByteMod - 1]
    ELSE [io |-> [Burn(io) EXCEPT !.stdin_pos = @ + 1], ok |-> TRUE,
          byte |-> io.stdin[io.stdin_pos + 1]]

\* the input closure of main: a byte, 0 at end of stream, or an io::Error
input(io) ==
    IF io.fuse = 0 THEN [io |-> [io EXCEPT !.fuse = Never], ok |-> FALSE, byte |-> 0]
    ELSE IF io.stdin_pos >= Len(io.stdin) THEN [io |-> Burn(io), ok |-> TRUE, byte |-> 0]
    ELSE [io |-> [Burn(io) EXCEPT !.stdin_pos = @ + 1], ok |-> TRUE,
          byte |-> io.stdin[io.stdin_pos + 1]]

\* the output closure of main: writes the byte or fails with an io::Error
output(io, c) ==
    IF io.fuse = 0 THEN [io |-> [io EXCEPT !.fuse = Never], ok |-> FALSE]
    ELSE [io |-> [Burn(io) EXCEPT !.stdout = Append(@, c)], ok |-> TRUE]

(* ------------------------------ Runner -------------------------------- *)
\* Runner::new
RunnerNew(max_size, code) ==
    [tape |-> TapeNew(max_size), program |-> parse_source(code),
     step_count |-> 0, next_halt |-> None]

\* a count that leaves out the loop markers
count_step_effect(r, instruction) ==
    IF instruction \in {BeginLoop, EndLoop} THEN r ELSE [r EXCEPT !.step_count = @ + 1]

\* line 254: every step that returns Step(..) is counted
count_step(r, instruction) == [r EXCEPT !.step_count = @ + 1]

\* a Terminate that is counted as a step
step_terminate_counted(r) == [r EXCEPT !.step_count = @ + 1]

\* lines 256-258: a Terminate leaves the runner as it is
step_terminate(r) == r

\* the result of step / run / run_for: the runner and the environment after the
\* call, the variant returned, and what it carries
Result(r, io, res, instruction, n, error) ==
    [runner |-> r, io |-> io, res |-> res, instruction |-> instruction, n |-> n,
     error |-> error]

\* lines 238-255 of Runner::step: the decode e returned Step(e.instruction) and
\* r1 is the runner with the program it left
step_apply(r1, io, e) ==
    LET Fail(rr, ioo, msg) == Result(rr, ioo, "Err", NoValue, 0, msg)
        Done(rr, ioo) ==
            Result(count_step(rr, e.instruction), ioo, "Step", e.instruction, 0, NoValue)
        \* the move works on the tape in place: what it did stays when it fails
        Moved(m) == IF m.ok THEN Done([r1 EXCEPT !.tape = m.tape], io)
                    ELSE Fail([r1 EXCEPT !.tape = m.tape], io, SizeExceeded)
        Wrote(o) == IF o.ok THEN Done(r1, o.io) ELSE Fail(r1, o.io, IoError)
        Got(i) == IF i.ok THEN Done([r1 EXCEPT !.tape = write(@, i.byte)], i.io)
                  ELSE Fail(r1, i.io, IoError)
    IN CASE e.instruction = Left -> Moved(move_left(r1.tape))
         [] e.instruction = Right -> Moved(move_right(r1.tape))
         [] e.instruction = Increment -> Done([r1 EXCEPT !.tape = increment(@)], io)
         [] e.instruction = Decrement -> Done([r1 EXCEPT !.tape = decrement(@)], io)
         [] e.instruction = Output -> Wrote(output(io, read(r1.tape)))
         [] e.instruction = Input -> Got(input(io))
         [] OTHER -> Done(r1, io)

\* lines 235-237 and 256-258 of Runner::step: what the decode e leads to
step_decoded(r, io, e) ==
    CASE e.res = "Err" -> Result(r, io, "Err", NoValue, 0, e.error)
      [] e.res = "Terminate" -> Result(step_terminate(r), io, "Terminate", NoValue, 0, NoValue)
      [] OTHER -> step_apply([r EXCEPT !.program = e.program], io, e)

\* Runner::step
step(r, io) == step_decoded(r, io, execute_command(r.program, read(r.tape)))

\* a count that includes the failing step
run_failed_incl(iteration_steps) == iteration_steps + 1

\* line 276: a failing step ends run with the steps completed in this call
run_failed(iteration_steps) == iteration_steps

\* the loop of Runner::run, lines 268-284.  fuel is the number of successful
\* steps the loop may still take before the step counter passes MaxSteps; a
\* call that needs more does not return within the bound ("Diverge").
RECURSIVE run_loop(_, _, _, _)

\* a halt test that lets one more step through
halt_reached_late(r) == r.next_halt # None /\ r.step_count > Unwrap(r.next_halt)

\* lines 269-273: the threshold of run_for is set and reached
halt_reached(r) == r.next_halt # None /\ r.step_count >= Unwrap(r.next_halt)

\* lines 275-283: the match on the result s of the step taken from r
run_match(r, io, iteration_steps, fuel, s) ==
    CASE s.res = "Err" ->
            Result(s.runner, s.io, "Err", NoValue, run_failed(iteration_steps), s.error)
      [] s.res = "Terminate" -> Result(s.runner, s.io, "Terminate", NoValue, 0, NoValue)
      [] OTHER ->
            IF fuel = 0 THEN Result(r, io, "Diverge", NoValue, iteration_steps, NoValue)
            ELSE run_loop(s.runner, s.io, iteration_steps + 1, fuel - 1)

run_loop(r, io, iteration_steps, fuel) ==
    IF halt_reached(r)
    THEN Result(r, io, "StepCount", NoValue, iteration_steps, NoValue)
    ELSE run_match(r, io, iteration_steps, fuel, step(r, io))

\* Runner::run
run(r, io) == run_loop(r, io, 0, MaxSteps - r.step_count)

\* lines 262-264 of Runner::run_for: the `?` returns the error of run before the
\* threshold is cleared
run_for_return(executed_steps) ==
    IF executed_steps.res = "Err" THEN executed_steps
    ELSE [executed_steps EXCEPT !.runner.next_halt = None]

\* a run_for that restarts the step counter for its quantum
run_for_restart(r, io, steps) ==
    run_for_return(run([r EXCEPT !.step_count = 0, !.next_halt = Some(steps)], io))

\* Runner::run_for
run_for(r, io, steps) ==
    run_for_return(run([r EXCEPT !.next_halt = Some(r.step_count + steps)], io))

(* ------------------------------- state -------------------------------- *)
VARIABLES
    runner,     \* the Runner: tape, program, step_count, next_halt
    stdin,      \* the bytes of the input stream
    stdin_pos,  \* how many of them the input capability has read
    stdout,     \* the bytes the output capability has written
    ret,        \* the call the host made last and what it returned
    halted      \* a step() has returned Terminate

vars == <<runner, stdin, stdin_pos, stdout, ret, halted>>

\* the source texts: every text of at most MaxLen characters, and longer ones
\* with nested and sequenced loops
ExtraSources ==
    { <<"+", "[", "-", "]">>,
      <<"+", "+", "+", ".">>,
      <<"[", "[", "]", "]">>,
      <<"+", "[", "[", "-", "]", "]">>,
      <<"[", "[", "]", "[", "]", "]", "+">>,
      <<"+", "[", ">", "+", "<", "-", "]">>,
      <<",", "[", ".", ",", "]">>,
      <<"+", "[", "[", "-", "]">>,
      <<"+", "[", "-", "]", "]", "+", "]">>,
      <<"-", "[", "<", "]">>,
      <<"+", ">", "+">>,
      <<"[", "[", "]">>,
      <<"+", "]", "]">>,
      <<"+", "[", "]">>,
      <<"<", "<", ">">>,
      <<">", "-", "<">>,
      <<"+", ".", ".">>,
      <<",", ",", ".">>,
      <<"+", "[", "-", "[", "]", "+", "]">>,
      <<"<", "+", ">">> }

Sources == UNION {[1..n -> Chars] : n \in 0..MaxLen} \cup ExtraSources

\* the input streams
Inputs == {<< >>, <<255, 1>>}

Fuses == {Never} \cup 0..(MaxFuse - 1)
Quanta == 0..MaxQuantum

Env(fuse) == [stdin |-> stdin, stdin_pos |-> stdin_pos, stdout |-> stdout, fuse |-> fuse]

Init ==
    /\ \E max_size \in 1..MaxTape, code \in Sources : runner = RunnerNew(max_size, code)
    /\ stdin \in Inputs
    /\ stdin_pos = 0
    /\ stdout = << >>
    /\ ret = [call |-> "new", res |-> NoValue, instruction |-> NoValue,
              error |-> NoValue, n |-> 0, steps |-> None]
    /\ halted = FALSE

\* the call returns s: the runner and the environment take the state it left
Returned(call, steps, s) ==
    /\ s.res # "Diverge"
    /\ s.runner.step_count <= MaxSteps
    /\ runner' = s.runner
    /\ stdin' = stdin
    /\ stdin_pos' = s.io.stdin_pos
    /\ stdout' = s.io.stdout
    /\ ret' = [call |-> call, res |-> s.res, instruction |-> s.instruction,
               error |-> s.error, n |-> s.n, steps |-> steps]
    /\ halted' = (halted \/ s.res = "Terminate")

\* the host calls step()
Step == \E fuse \in Fuses : Returned("step", None, step(runner, Env(fuse)))

\* the host calls run()
Run == \E fuse \in Fuses : Returned("run", None, run(runner, Env(fuse)))

\* the host calls run_for(steps)
RunFor ==
    \E steps \in Quanta, fuse \in Fuses :
        Returned("run_for", Some(steps), run_for(runner, Env(fuse), steps))

Next == Step \/ Run \/ RunFor

Spec == Init /\ [][Next]_vars

(* ------------------------------- main --------------------------------- *)
\* main, lines 303-326: the Runner is built from the arguments; ret.steps holds
\* steps_before_interrupt
MainInit ==
    /\ \E max_size \in 1..MaxTape, code \in Sources : runner = RunnerNew(max_size, code)
    /\ stdin \in Inputs
    /\ stdin_pos = 0
    /\ stdout = << >>
    /\ \E args \in {None} \cup {Some(k) : k \in Quanta} :
           ret = [call |-> "main", res |-> NoValue, instruction |-> NoValue,
                  error |-> NoValue, n |-> 0, steps |-> args]
    /\ halted = FALSE

\* main is over: the program halted, or unwrap() panicked on an error
MainOver == ret.res \in {"Terminate", "Err"}

\* lines 327-336: one turn of the loop around run_for(steps)
MainRunFor ==
    /\ ret.steps # None
    /\ ~MainOver
    /\ \E fuse \in Fuses :
          Returned("main", ret.steps, run_for(runner, Env(fuse), Unwrap(ret.steps)))

\* lines 337-344: the single run()
MainRun ==
    /\ ret.steps = None
    /\ ret.res = NoValue
    /\ \E fuse \in Fuses : Returned("main", None, run(runner, Env(fuse)))

MainNext == MainRunFor \/ MainRun

SpecMain == MainInit /\ [][MainNext]_vars

(* ------------------------------- tape --------------------------------- *)
\* Tape::increment and Tape::decrement called on a tape whose active cell holds
\* any byte, on either side of the origin
ByteTapes ==
    {[TapeNew(1) EXCEPT !.right = <<b>>] : b \in 0..(ByteMod - 1)} \cup
    {[TapeNew(2) EXCEPT !.left = <<b>>, !.pointer = -1] : b \in 0..(ByteMod - 1)}

TapeInit ==
    /\ \E t \in ByteTapes : runner = [RunnerNew(t.max_size, << >>) EXCEPT !.tape = t]
    /\ stdin = << >>
    /\ stdin_pos = 0
    /\ stdout = << >>
    /\ ret = [call |-> "new", res |-> NoValue, instruction |-> NoValue,
              error |-> NoValue, n |-> 0, steps |-> None]
    /\ halted = FALSE

TapeCall(call, t) ==
    /\ runner' = [runner EXCEPT !.tape = t]
    /\ ret' = [ret EXCEPT !.call = call]
    /\ UNCHANGED <<stdin, stdin_pos, stdout, halted>>

TapeIncrement == TapeCall("increment", increment(runner.tape))

TapeDecrement == TapeCall("decrement", decrement(runner.tape))

TapeNext == TapeIncrement \/ TapeDecrement

SpecTape == TapeInit /\ [][TapeNext]_vars

(* --------------------------- shorthands ------------------------------- *)
tape == runner.tape
program == runner.program
source == runner.program.source
pc == runner.program.pc

\* the transition is a call of the named kind
Called(kinds) == ret'.call \in kinds

\* the logical position p has a cell
Allocated(t, p) == IF p >= 0 THEN p < Len(t.right) ELSE -p - 1 < Len(t.left)

\* the instruction the next decode examines, if any
Current == IF pc < Len(source) THEN At(source, pc) ELSE NoValue

\* nesting by counting: the brackets of src at the 0-based positions a..b
Count(src, a, b, inst) == Cardinality({m \in a..b : At(src, m) = inst})
Depth(src, a, b) == Count(src, a, b, BeginLoop) - Count(src, a, b, EndLoop)
Matches(src, i, j) ==
    /\ i < j
    /\ At(src, i) = BeginLoop
    /\ At(src, j) = EndLoop
    /\ Depth(src, i, j) = 0
    /\ \A m \in i..(j - 1) : Depth(src, i, m) > 0
Indices(src) == 0..(Len(src) - 1)
HasClosing(src, i) == \E j \in Indices(src) : Matches(src, i, j)
HasOpening(src, j) == \E i \in Indices(src) : Matches(src, i, j)
Balanced(src) ==
    /\ Depth(src, 0, Len(src) - 1) = 0
    /\ \A m \in Indices(src) : Depth(src, 0, m) >= 0

ParenErrors == {NoClosing, NoOpening}

(* ------------------------------ claims -------------------------------- *)
\* C1: in every reachable state the two halves of the tape hold at most
\* max_size cells together.
C1_TapeWithinMax == Len(tape.left) + Len(tape.right) <= tape.max_size

\* a full tape that grew on both sides and refused a further cell
C1_Witness ==
    /\ Len(tape.left) + Len(tape.right) = tape.max_size
    /\ Len(tape.left) >= 1
    /\ ret.error = SizeExceeded

\* C2: a move to a position without a cell on a full tape fails with
\* size-exceeded and leaves the pointer, left, right and every cell as they were;
\* a run() with no threshold left behind, or a run_for(k) with k >= 1, that starts
\* on such a move fails with 0 completed steps.
BlockedMove ==
    /\ Current \in {Left, Right}
    /\ ~Allocated(tape, IF Current = Left THEN tape.pointer - 1 ELSE tape.pointer + 1)
    /\ Len(tape.left) + Len(tape.right) = tape.max_size
C2_FullTapeMoveFails ==
    [][ BlockedMove =>
          /\ Called({"step"}) =>
                ret'.res = "Err" /\ ret'.error = SizeExceeded /\ runner'.tape = tape
          /\ (Called({"run"}) /\ runner.next_halt = None) \/
             (Called({"run_for"}) /\ ret'.steps # Some(0)) =>
                /\ ret'.res = "Err" /\ ret'.error = SizeExceeded /\ ret'.n = 0
                /\ runner'.tape = tape /\ runner'.step_count = runner.step_count ]_vars

\* source `>` on a tape of one cell: run fails on the first move
C2_Witness ==
    /\ source = <<Right>> /\ tape.max_size = 1
    /\ ret.call = "run" /\ ret.error = SizeExceeded /\ ret.n = 0
    /\ tape = TapeNew(1) /\ runner.step_count = 0

\* C3: when main drives a program to Terminate with run_for(k), k >= 1, the
\* tape, pointer, program counter, step count and output are those a single
\* run() on a fresh Runner with the same program and input ends with.
Fresh(r) == [tape |-> TapeNew(r.tape.max_size), program |-> [r.program EXCEPT !.pc = 0],
             step_count |-> 0, next_halt |-> None]
EndsAs(single) ==
    /\ single.res = "Terminate"
    /\ single.runner = runner
    /\ single.io.stdout = stdout
    /\ single.io.stdin_pos = stdin_pos
C3_RunForEqualsRun ==
    (ret.call = "main" /\ ret.res = "Terminate" /\ ret.steps \notin {None, Some(0)}) =>
        EndsAs(run(Fresh(runner),
                   [stdin |-> stdin, stdin_pos |-> 0, stdout |-> << >>, fuse |-> Never]))

\* a program that took several quanta of 2 steps, wrote output and halted
C3_Witness ==
    /\ ret.call = "main" /\ ret.res = "Terminate" /\ ret.steps = Some(2)
    /\ runner.step_count >= 4 /\ stdout # << >>

\* C4: the halt threshold is absent whenever no run_for call is in progress,
\* that is in every state between two calls.
C4_ThresholdCleared == runner.next_halt = None

\* C5: once a step() has returned Terminate, every later step() returns
\* Terminate and the program counter, the tape with its pointer and the step
\* counter never change again.
C5_TerminateAbsorbing ==
    [][ halted =>
          /\ runner'.program = program
          /\ runner'.tape = tape
          /\ runner'.step_count = runner.step_count
          /\ Called({"step"}) => ret'.res = "Terminate" ]_vars

\* a program that ran some steps, terminated, and was stepped again
C5_Witness ==
    /\ halted /\ runner.step_count >= 2
    /\ ret.call = "step" /\ ret.res = "Terminate"

\* C6: a program with balanced brackets never fails with a mismatched-bracket
\* error, and a run() that returns normally with the program counter at the
\* source length returns Terminate.
C6_BalancedRunsToTerminate ==
    Balanced(source) =>
        /\ ret.error \notin ParenErrors
        /\ (ret.call = "run" /\ ret.res # "Err" /\ pc = Len(source)) => ret.res = "Terminate"

\* C7: a decode fails with "no matching closing" exactly when it examines a `[`
\* without a matching `]` while the cell is 0, and with "no matching opening"
\* exactly when it examines a `]` without a matching `[` while the cell is not 0;
\* whichever call reports such an error, the program counter is left on that
\* bracket.
UnmatchedOpen(r) ==
    /\ r.program.pc < Len(r.program.source)
    /\ At(r.program.source, r.program.pc) = BeginLoop
    /\ read(r.tape) = 0
    /\ ~HasClosing(r.program.source, r.program.pc)
UnmatchedClose(r) ==
    /\ r.program.pc < Len(r.program.source)
    /\ At(r.program.source, r.program.pc) = EndLoop
    /\ read(r.tape) # 0
    /\ ~HasOpening(r.program.source, r.program.pc)
C7_LazyMismatch ==
    [][ /\ Called({"step"}) =>
              /\ (ret'.res = "Err" /\ ret'.error = NoClosing) <=> UnmatchedOpen(runner)
              /\ (ret'.res = "Err" /\ ret'.error = NoOpening) <=> UnmatchedClose(runner)
        /\ ret'.error = NoClosing => UnmatchedOpen(runner')
        /\ ret'.error = NoOpening => UnmatchedClose(runner') ]_vars

\* an unmatched `]` was passed with a zero cell, and an unmatched `[` then failed
C7_Witness ==
    /\ ret.call = "step" /\ ret.error = NoClosing
    /\ \E i \in Indices(source) : i < pc /\ At(source, i) = EndLoop /\ ~HasOpening(source, i)

\* C8: when run() or run_for() fails, the count returned with the error is the
\* amount by which the total step counter grew during the call.
C8_ErrorCount ==
    [][ (Called({"run", "run_for"}) /\ ret'.res = "Err") =>
            ret'.n = runner'.step_count - runner.step_count ]_vars

\* a run_for that completed steps and then failed on I/O
C8_Witness ==
    /\ ret.call = "run_for" /\ ret.res = "Err" /\ ret.error = IoError /\ ret.n >= 1

\* C9: the step counter never decreases; a step() that returns Step(..) adds
\* exactly 1, loop markers included, and one that returns Terminate or fails
\* adds nothing.
C9_StepCounter ==
    [][ /\ runner'.step_count >= runner.step_count
        /\ Called({"step"}) =>
              runner'.step_count = runner.step_count + (IF ret'.res = "Step" THEN 1 ELSE 0)
      ]_vars

\* a loop marker was stepped over and counted
C9_Witness ==
    /\ ret.call = "step" /\ ret.res = "Step" /\ ret.instruction = BeginLoop
    /\ runner.step_count >= 2

\* C10: a step() that returns Step(..) reports the instruction that stood at
\* the program counter before the decode.
C10_ReportsConsumed ==
    [][ (Called({"step"}) /\ ret'.res = "Step") => ret'.instruction = Current ]_vars

\* C11: run() on a fresh Runner with source `+[-]` returns Terminate with the
\* active cell 0 after 4 counted steps: `+`, `[` entered, `-`, `]` left.
PlusLoop == <<Increment, BeginLoop, Decrement, EndLoop>>
FreshRunDone == ret.call = "main" /\ ret.steps = None /\ ret.res = "Terminate"
C11_PlusLoopFourSteps ==
    (FreshRunDone /\ source = PlusLoop) => (read(tape) = 0 /\ runner.step_count = 4)

\* the same run, with the total the claim names: 3 steps
C11_PlusLoopThreeSteps ==
    (FreshRunDone /\ source = PlusLoop) => (read(tape) = 0 /\ runner.step_count = 3)

\* `+[-]` has run to its end
C11_Witness == FreshRunDone /\ source = PlusLoop /\ pc = 4

\* C12: increment turns the active cell b into b + 1, and 255 into 0; decrement
\* turns it into b - 1, and 0 into 255; both leave the pointer and the other
\* cells alone, and every cell stays a byte.
Cells(t) == {t.left[i] : i \in 1..Len(t.left)} \cup {t.right[i] : i \in 1..Len(t.right)}
Bytes == 0..255
C12_Wraparound ==
    [][ /\ Called({"increment"}) =>
              read(runner'.tape) = (IF read(tape) = 255 THEN 0 ELSE read(tape) + 1)
        /\ Called({"decrement"}) =>
              read(runner'.tape) = (IF read(tape) = 0 THEN 255 ELSE read(tape) - 1)
        /\ runner'.tape = write(tape, read(runner'.tape))
        /\ Cells(runner'.tape) \subseteq Bytes ]_vars

\* an increment has just wrapped a cell left of the origin from 255 to 0
C12_Witness == ret.call = "increment" /\ tape.pointer < 0 /\ read(tape) = 0

\* C13: the program counter is always between 0 and the number of parsed
\* instructions, and a step() returns Terminate exactly when the counter it
\* finds equals that number.
PcInRange(r) == r.program.pc \in 0..Len(r.program.source)
C13_CounterRange ==
    [][ /\ PcInRange(runner) /\ PcInRange(runner')
        /\ Called({"step"}) => (ret'.res = "Terminate" <=> pc = Len(source)) ]_vars

\* a backward jump took the counter down, and later the program ended
C13_Witness ==
    /\ ret.call = "step" /\ ret.res = "Terminate" /\ pc = Len(source)
    /\ runner.step_count > Len(source) /\ Len(source) >= 3

\* C14: an Output step appends exactly the active cell's value to the output and
\* changes no cell and no pointer; an Input step writes the next byte of the
\* input stream, or 0 at its end, into the active cell and changes no other cell
\* and no pointer; `+++.` run through emits [3] and `,.` on an empty stream [0].
NextInput == IF stdin_pos < Len(stdin) THEN stdin[stdin_pos + 1] ELSE 0
RanThrough(r, src) ==
    r.program.source = src /\ r.program.pc = Len(src) /\ r.step_count = Len(src)
C14_OutputInput ==
    [][ /\ (Called({"step"}) /\ ret'.res = "Step" /\ Current = Output) =>
              /\ stdout' = Append(stdout, read(tape))
              /\ runner'.tape = tape
        /\ (Called({"step"}) /\ ret'.res = "Step" /\ Current = Input) =>
              /\ runner'.tape = write(tape, NextInput)
              /\ stdout' = stdout
        /\ RanThrough(runner', <<Increment, Increment, Increment, Output>>) =>
              stdout' = <<3>>
        /\ (RanThrough(runner', <<Input, Output>>) /\ stdin = << >>) =>
              stdout' = <<0>> ]_vars

\* `,.` has read the end of the stream into a cell and written it out
C14_Witness == RanThrough(runner, <<Input, Output>>) /\ stdin = << >> /\ stdout = <<0>>

\* C15: a run_for(k) returns after at most k counted steps: StepCount(n) only
\* with n = k and the step counter exactly k higher, Terminate or an error only
\* with the counter less than k higher; what it leaves is what the next call
\* starts from.
Growth == runner'.step_count - runner.step_count
C15_Quantum ==
    [][ Called({"run_for"}) =>
          /\ ret'.res \in {"StepCount", "Terminate", "Err"}
          /\ ret'.res = "StepCount" => (ret'.n = Unwrap(ret'.steps) /\ Growth = ret'.n)
          /\ ret'.res \in {"Terminate", "Err"} => Growth < Unwrap(ret'.steps) ]_vars

\* the endless loop `+[]` was paused for the third time after a quantum of 2
C15_Witness ==
    /\ source = <<Increment, BeginLoop, EndLoop>>
    /\ ret.call = "run_for" /\ ret.res = "StepCount" /\ ret.n = 2
    /\ runner.step_count >= 6

\* C16: a step on a `[` that has a partner, with the cell 0, puts the program
\* counter on the matching `]`; a step on a `]` that has a partner, with the cell
\* not 0, puts it on the matching `[`; with the other cell value the counter
\* advances by one.
C16_JumpToPartner ==
    [][ Called({"step"}) =>
          /\ (Current = BeginLoop /\ read(tape) = 0 /\ HasClosing(source, pc)) =>
                (ret'.res = "Step" /\ Matches(source, pc, runner'.program.pc))
          /\ (Current = EndLoop /\ read(tape) # 0 /\ HasOpening(source, pc)) =>
                (ret'.res = "Step" /\ Matches(source, runner'.program.pc, pc))
          /\ (Current = BeginLoop /\ read(tape) # 0) \/ (Current = EndLoop /\ read(tape) = 0) =>
                (ret'.res = "Step" /\ runner'.program.pc = pc + 1) ]_vars

\* the outer `]` of `+[-[]+]` jumped back over the inner loop to the outer `[`
C16_Witness ==
    /\ source = <<Increment, BeginLoop, Decrement, BeginLoop, EndLoop, Increment, EndLoop>>
    /\ ret.call = "step" /\ ret.instruction = EndLoop /\ pc = 1

\* C17: the pointer always addresses an allocated cell: right[pointer] when it
\* is 0 or more, left[-pointer - 1] when it is negative; neither half ever
\* shrinks, and a step leaves every cell but the active one at its index with
\* its value.
ActiveLeft(t) == IF t.pointer < 0 THEN -t.pointer ELSE 0
ActiveRight(t) == IF t.pointer >= 0 THEN t.pointer + 1 ELSE 0
PointerValid(t) ==
    IF t.pointer >= 0 THEN t.pointer < Len(t.right) ELSE -t.pointer - 1 < Len(t.left)
C17_PointerAllocated ==
    [][ /\ PointerValid(tape) /\ PointerValid(runner'.tape)
        /\ Len(runner'.tape.left) >= Len(tape.left)
        /\ Len(runner'.tape.right) >= Len(tape.right)
        /\ Called({"step"}) =>
              /\ \A i \in 1..Len(tape.left) :
                    i # ActiveLeft(tape) => runner'.tape.left[i] = tape.left[i]
              /\ \A i \in 1..Len(tape.right) :
                    i # ActiveRight(tape) => runner'.tape.right[i] = tape.right[i] ]_vars

\* a cell left of the origin was allocated, written and left again
C17_Witness ==
    /\ tape.pointer = 0 /\ Len(tape.left) >= 1 /\ tape.left[1] # 0
    /\ ret.call = "step" /\ ret.instruction = Right

\* C18: a move onto a position that has a cell never fails, also on a full tape,
\* and changes the pointer by one and nothing else; a move onto a position
\* without a cell on a tape that is not full appends one zero cell on that side
\* and changes the pointer by one and nothing else.
Target == IF Current = Left THEN tape.pointer - 1 ELSE tape.pointer + 1
Full(t) == Len(t.left) + Len(t.right) = t.max_size
Grown(t) ==
    IF Current = Left THEN [t EXCEPT !.left = t.left \o <<0>>, !.pointer = Target]
    ELSE [t EXCEPT !.right = t.right \o <<0>>, !.pointer = Target]
C18_MoveGrowth ==
    [][ (Called({"step"}) /\ Current \in {Left, Right}) =>
          /\ Allocated(tape, Target) =>
                (ret'.res = "Step" /\ runner'.tape = [tape EXCEPT !.pointer = Target])
          /\ (~Allocated(tape, Target) /\ ~Full(tape)) =>
                (ret'.res = "Step" /\ runner'.tape = Grown(tape)) ]_vars

\* on a full tape the pointer moved from the left half back onto the origin
C18_Witness ==
    /\ ret.call = "step" /\ ret.res = "Step" /\ ret.instruction = Right
    /\ Full(tape) /\ tape.pointer = 0 /\ Len(tape.left) >= 1

\* C19: a run() that the host calls itself returns Terminate or an error, never
\* StepCount.
C19_RunNeverStepCount == ret.call = "run" => ret.res # "StepCount"

\* C20: a step() that fails on a mismatched bracket leaves the program counter,
\* the tape with its pointer and the step counter as they were; one that fails
\* with size-exceeded or on I/O leaves the tape, the pointer and the step counter
\* as they were and the program counter one past the instruction that failed.
StepFailed == Called({"step"}) /\ ret'.res = "Err"
C20_FailedStepEffect ==
    [][ StepFailed =>
          /\ runner'.tape = tape
          /\ runner'.step_count = runner.step_count
          /\ runner'.program.pc = (IF ret'.error \in ParenErrors THEN pc ELSE pc + 1) ]_vars

\* the claim as made: a failing step() changes nothing, the counter included
C20_FailedStepAtomic ==
    [][ StepFailed =>
          /\ runner'.tape = tape
          /\ runner'.step_count = runner.step_count
          /\ runner'.program.pc = pc ]_vars

\* a move left failed on a full tape after the program had moved right
C20_Witness ==
    /\ ret.call = "step" /\ ret.error = SizeExceeded
    /\ pc >= 2 /\ At(source, pc - 1) = Left
====
